---- MODULE Spec2Model ----
(***************************************************************************)
(* A model of labs_analyzer.py: the batch pipeline                         *)
(*   load_csv -> normalize_schema -> apply_reference_ranges -> summarize   *)
(*   -> write_outputs -> plot_histograms_per_test                          *)
(* run by main().                                                          *)
(*                                                                         *)
(* Numbers are kept in tenths (13.5 g/dL is 135), so that every value and  *)
(* every bound of DEMO_RANGES is an integer.                               *)
(*                                                                         *)
(* A cell is a record [k, s, n]:                                           *)
(*   k = "na"      a missing cell (NaN / <NA>; an empty CSV field)         *)
(*   k = "str"     a string s that is neither a number nor a date          *)
(*   k = "numtxt"  a string that spells the number n; s is its spelling,   *)
(*                 "int" ("70") or "dec" ("70.0")                          *)
(*   k = "datetxt" a string that spells the calendar day n; s is its       *)
(*                 spelling, "us" (01/02/2020) or "iso" (2020-01-02)       *)
(*   k = "num"     a number n held in a numeric column                     *)
(***************************************************************************)
EXTENDS Integers, Sequences, FiniteSets, TLC

\* Largest number of rows of an input file built from SmallRecs.
MaxRows == 2

----------------------------------------------------------------------------
\* Cells

NA == [k |-> "na", s |-> "", n |-> 0]

Str(s) == [k |-> "str", s |-> s, n |-> 0]

NumTxt(n, f) == [k |-> "numtxt", s |-> f, n |-> n]

DateTxt(d, f) == [k |-> "datetxt", s |-> f, n |-> d]

Num(n) == [k |-> "num", s |-> "", n |-> n]

IsNA(c) == c.k = "na"

\* The absent column name (Python None) and the absent number (None).
NoneCol == "<none>"

NoneNum == 0 - 1

----------------------------------------------------------------------------
\* Strings: str.strip, str.lower and str.upper on the strings of the model.

Strip(s) ==
    CASE s = " f " -> "f"
      [] s = " WBC " -> "WBC"
      [] s = " " -> ""
      [] OTHER -> s

Lower(s) ==
    CASE s = "PatientID" -> "patientid"
      [] s = "MRN" -> "mrn"
      [] s = "Sex" -> "sex"
      [] s = "Gender" -> "gender"
      [] s = "Test" -> "test"
      [] s = "Analyte" -> "analyte"
      [] s = "Value" -> "value"
      [] s = "Result" -> "result"
      [] s = "Date" -> "date"
      [] s = "M" -> "m"
      [] s = "MALE" -> "male"
      [] s = "Man" -> "man"
      [] s = "F" -> "f"
      [] s = "Female" -> "female"
      [] s = "WOMAN" -> "woman"
      [] s = "<NA>" -> "<na>"
      [] s = "GLU" -> "glu"
      [] s = "HGB" -> "hgb"
      [] s = "WBC" -> "wbc"
      [] s = "ZZZ" -> "zzz"
      [] OTHER -> s

Upper(s) ==
    CASE s = "hgb" -> "HGB"
      [] s = "f" -> "F"
      [] s = "male" -> "MALE"
      [] s = "x" -> "X"
      [] s = "<NA>" -> "<NA>"
      [] OTHER -> s

\* str(cell): the text Python's str() gives for a cell of a row. The test and
\* sex columns of the model hold strings and missing cells only; the text of
\* any other cell is no test name and no sex.
PyStr(c) ==
    CASE c.k = "na" -> "<NA>"
      [] c.k = "str" -> c.s
      [] OTHER -> "<other>"

----------------------------------------------------------------------------
\* Sequences

Range(q) == {q[i] : i \in DOMAIN q}

IndexOf(q, x) == CHOOSE i \in DOMAIN q : q[i] = x /\ \A j \in 1..(i - 1) : q[j] # x

RECURSIVE SeqSum(_)
SeqSum(q) == IF q = <<>> THEN 0 ELSE Head(q) + SeqSum(Tail(q))

SetMin(S) == CHOOSE x \in S : \A y \in S : x <= y

SetMax(S) == CHOOSE x \in S : \A y \in S : x >= y

RECURSIVE GCD(_, _)
GCD(a, b) == IF b = 0 THEN a ELSE GCD(b, a % b)

----------------------------------------------------------------------------
\* Configuration

Roles == <<"patient_id", "sex", "test_name", "value", "units", "date">>

CANDIDATES ==
    [patient_id |-> <<"patient_id", "patientid", "patient", "mrn", "member_id">>,
     sex |-> <<"sex", "gender", "biological_sex">>,
     test_name |-> <<"test", "test_name", "analyte", "labtest">>,
     value |-> <<"value", "result", "result_value", "lab_value">>,
     units |-> <<"units", "unit", "uom">>,
     date |-> <<"date", "collection_date", "draw_date", "result_date">>]

\* The alternatives of the DATE_PATTERNS regular expression. A column name made
\* of word characters only contains a whole-word match exactly when it is,
\* case-insensitively, one of the alternatives.
DATE_PATTERNS ==
    {"date", "collection_date", "draw_date", "result_date", "reported_date"}

Triple(low, high, units) == [low |-> low, high |-> high, units |-> units]

\* An entry is a tuple (unisex) or a dict keyed by "M", "F", "default".
DEMO_RANGES ==
    [HGB |-> [tuple |-> FALSE,
              t |-> Triple(0, 0, ""),
              d |-> [M |-> Triple(135, 175, "g/dL"),
                     F |-> Triple(120, 155, "g/dL"),
                     default |-> Triple(120, 160, "g/dL")]],
     WBC |-> [tuple |-> TRUE, t |-> Triple(40, 110, "10^9/L"), d |-> <<>>],
     GLU |-> [tuple |-> TRUE, t |-> Triple(700, 990, "mg/dL"), d |-> <<>>]]

----------------------------------------------------------------------------
\* Frames: [cols |-> sequence of column names, rows |-> sequence of rows], a row
\* being a sequence of cells, one for each column.

Frame(cols, rows) == [cols |-> cols, rows |-> rows]

EmptyFrame == Frame(<<>>, <<>>)

Indices(n) == [i \in 1..n |-> i]

ColIndex(df, c) == IndexOf(df.cols, c)

HasCol(df, c) == c \in Range(df.cols)

Cell(df, row, c) == row[ColIndex(df, c)]

----------------------------------------------------------------------------
\* load_csv

\* pd.read_csv: an empty field is missing; a column all of whose fields spell
\* numbers is numeric, any other column holds the fields as strings.
ColumnIsNumeric(rows, j) ==
    /\ \E i \in DOMAIN rows : rows[i][j].k = "numtxt"
    /\ \A i \in DOMAIN rows : rows[i][j].k \in {"numtxt", "na"}

ReadCsv(file) ==
    Frame(file.header,
          [i \in DOMAIN file.rows |->
              [j \in DOMAIN file.header |->
                  IF ColumnIsNumeric(file.rows, j) /\ file.rows[i][j].k = "numtxt"
                  THEN Num(file.rows[i][j].n)
                  ELSE file.rows[i][j]]])

\* df.dropna(how="all")
DropEmptyRows(df) ==
    Frame(df.cols, SelectSeq(df.rows, LAMBDA r : \E j \in DOMAIN r : ~IsNA(r[j])))

\* df.dropna(axis=1, how="all")
DropEmptyCols(df) ==
    LET keep == SelectSeq(Indices(Len(df.cols)),
                          LAMBDA j : \E i \in DOMAIN df.rows : ~IsNA(df.rows[i][j]))
    IN  Frame([x \in DOMAIN keep |-> df.cols[keep[x]]],
              [i \in DOMAIN df.rows |-> [x \in DOMAIN keep |-> df.rows[i][keep[x]]]])

\* df[c].astype("string").str.strip() on the object columns: the strings of
\* the model that carry blanks are "str" cells.
StripCell(c) == IF c.k = "str" THEN Str(Strip(c.s)) ELSE c

StripStrings(df) ==
    Frame(df.cols,
          [i \in DOMAIN df.rows |-> [j \in DOMAIN df.cols |-> StripCell(df.rows[i][j])]])

\* df.drop_duplicates(): the first of equal rows is kept.
DropDuplicates(df) ==
    LET keep == SelectSeq(Indices(Len(df.rows)),
                          LAMBDA i : \A h \in 1..(i - 1) : df.rows[h] # df.rows[i])
    IN  Frame(df.cols, [x \in DOMAIN keep |-> df.rows[keep[x]]])

load_csv(file) == DropDuplicates(StripStrings(DropEmptyCols(DropEmptyRows(ReadCsv(file)))))

----------------------------------------------------------------------------
\* normalize_schema

\* lowered = {c.lower(): c for c in df.columns}: the last column of a lowered
\* name is the one kept.
Lowered(cols, key) ==
    cols[SetMax({i \in DOMAIN cols : Lower(cols[i]) = key})]

InLowered(cols, key) == \E i \in DOMAIN cols : Lower(cols[i]) = key

RECURSIVE FirstMatch(_, _)
FirstMatch(cols, options) ==
    IF options = <<>> THEN NoneCol
    ELSE IF InLowered(cols, Lower(Head(options)))
         THEN Lowered(cols, Lower(Head(options)))
         ELSE FirstMatch(cols, Tail(options))

\* The first column, in header order, that is one of the options.
_infer_col_HeaderOrder(df, options) ==
    LET hits == {i \in DOMAIN df.cols :
                    \E o \in DOMAIN options : Lower(df.cols[i]) = Lower(options[o])}
    IN  IF hits = {} THEN NoneCol ELSE df.cols[SetMin(hits)]

_infer_col(df, options) == FirstMatch(df.cols, options)

RECURSIVE Dedup(_)
Dedup(q) ==
    IF q = <<>> THEN <<>>
    ELSE LET front == Dedup(SubSeq(q, 1, Len(q) - 1))
             last == q[Len(q)]
         IN  IF last \in Range(front) THEN front ELSE Append(front, last)

_find_date_columns(df) ==
    Dedup(SelectSeq(df.cols, LAMBDA c : Lower(c) \in DATE_PATTERNS))

\* pd.to_datetime(errors="coerce") then .dt.date.astype("string"): a cell that
\* spells a day becomes its ISO spelling, any other cell becomes missing.
\* A cell that does not parse left as it is.
ToIsoDate_KeepText(c) == IF c.k = "datetxt" THEN DateTxt(c.n, "iso") ELSE c

ToIsoDate(c) == IF c.k = "datetxt" THEN DateTxt(c.n, "iso") ELSE NA

\* df[c] = ser.dt.date.astype("string")
CoerceDateCol(df, c) ==
    Frame(df.cols,
          [i \in DOMAIN df.rows |->
              [j \in DOMAIN df.cols |->
                  IF df.cols[j] = c THEN ToIsoDate(df.rows[i][j]) ELSE df.rows[i][j]]])

\* The except branch, which leaves a column as it is, is taken when the
\* conversion of the whole column raises; with errors="coerce" a cell that
\* does not parse does not raise.
RECURSIVE _coerce_dates(_, _)
_coerce_dates(df, cols) ==
    IF cols = <<>> THEN df
    ELSE _coerce_dates(CoerceDateCol(df, Head(cols)), Tail(cols))

\* pd.to_numeric(errors="coerce")
ToNumeric(c) ==
    CASE c.k = "num" -> c
      [] c.k = "numtxt" -> Num(c.n)
      [] OTHER -> NA

\* The frame with df[c] = _safe_float(df[c]).
_safe_float(df, c) ==
    Frame(df.cols,
          [i \in DOMAIN df.rows |->
              [j \in DOMAIN df.cols |->
                  IF df.cols[j] = c THEN ToNumeric(df.rows[i][j]) ELSE df.rows[i][j]]])

Mapping(df) ==
    [patient_id |-> _infer_col(df, CANDIDATES["patient_id"]),
     sex |-> _infer_col(df, CANDIDATES["sex"]),
     test_name |-> _infer_col(df, CANDIDATES["test_name"]),
     value |-> _infer_col(df, CANDIDATES["value"]),
     units |-> _infer_col(df, CANDIDATES["units"]),
     date |-> _infer_col(df, CANDIDATES["date"])]

DateCols(df, m) ==
    LET found == _find_date_columns(df)
    IN  IF m["date"] # NoneCol /\ m["date"] \notin Range(found)
        THEN Append(found, m["date"])
        ELSE found

\* The frame normalize_schema returns.
NormalizedFrame(df) ==
    LET m == Mapping(df)
        dated == _coerce_dates(df, DateCols(df, m))
    IN  IF m["value"] # NoneCol THEN _safe_float(dated, m["value"]) ELSE dated

----------------------------------------------------------------------------
\* apply_reference_ranges

NoneSex == "<none>"

NoRange == [found |-> FALSE, low |-> 0, high |-> 0, units |-> ""]

Found(t) == [found |-> TRUE, low |-> t.low, high |-> t.high, units |-> t.units]

\* The sex compared without lower().
_normalize_sex_value_CaseSensitive(raw) ==
    IF IsNA(raw) THEN NoneSex
    ELSE LET s == Strip(PyStr(raw))
         IN  IF s \in {"m", "male", "man"} THEN "M"
             ELSE IF s \in {"f", "female", "woman"} THEN "F"
             ELSE NoneSex

\* A missing cell is None / NaN / <NA>; each of them ends as None.
_normalize_sex_value(raw) ==
    IF IsNA(raw) THEN NoneSex
    ELSE LET s == Lower(Strip(PyStr(raw)))
         IN  IF s \in {"m", "male", "man"} THEN "M"
             ELSE IF s \in {"f", "female", "woman"} THEN "F"
             ELSE NoneSex

\* The lookup, in a table of ranges.
LookupRange(ranges, test, sex) ==
    IF test \notin DOMAIN ranges THEN NoRange
    ELSE LET entry == ranges[test]
         IN  IF entry.tuple THEN Found(entry.t)
             ELSE IF sex # NoneSex /\ sex \in DOMAIN entry.d THEN Found(entry.d[sex])
             ELSE IF "default" \in DOMAIN entry.d THEN Found(entry.d["default"])
             ELSE NoRange

_lookup_range_for_test_and_sex(test, sex) == LookupRange(DEMO_RANGES, test, sex)

\* float(val): defined on numbers and on strings that spell one.
FloatRaises(val) == val.k \notin {"num", "numtxt"}

\* A value on the lower bound taken as below it.
FlagOf_InclusiveLow(v, low, high) ==
    IF v <= low THEN "LOW"
    ELSE IF v > high THEN "HIGH"
    ELSE "NORMAL"

FlagOf(v, low, high) ==
    IF v < low THEN "LOW"
    ELSE IF v > high THEN "HIGH"
    ELSE "NORMAL"

\* The four cells the loop leaves in a row: <<ref_low, ref_high, ref_units, flag>>.
Untouched == <<NA, NA, NA, Str("UNKNOWN")>>

\* The range written before the value is looked at.
FlagRow_RangeBeforeValue(df, mapping, row) ==
    LET test == Upper(Strip(PyStr(Cell(df, row, mapping["test_name"]))))
        val == Cell(df, row, mapping["value"])
        sex_norm == IF mapping["sex"] # NoneCol
                    THEN _normalize_sex_value(Cell(df, row, mapping["sex"]))
                    ELSE NoneSex
        rng == _lookup_range_for_test_and_sex(test, sex_norm)
    IN  IF ~rng.found THEN Untouched
        ELSE <<Num(rng.low), Num(rng.high), Str(rng.units),
               IF IsNA(val) \/ FloatRaises(val) THEN Str("UNKNOWN")
               ELSE Str(FlagOf(val.n, rng.low, rng.high))>>

FlagRow(df, mapping, row) ==
    LET test_col == mapping["test_name"]
        val_col == mapping["value"]
        sex_col == mapping["sex"]
        test == Upper(Strip(PyStr(Cell(df, row, test_col))))
        val == Cell(df, row, val_col)
        sex_norm == IF sex_col # NoneCol
                    THEN _normalize_sex_value(Cell(df, row, sex_col))
                    ELSE NoneSex
        rng == _lookup_range_for_test_and_sex(test, sex_norm)
    IN  IF IsNA(val) THEN Untouched
        ELSE IF ~rng.found THEN Untouched
        ELSE <<Num(rng.low), Num(rng.high), Str(rng.units),
               IF FloatRaises(val) THEN Str("UNKNOWN")
               ELSE Str(FlagOf(val.n, rng.low, rng.high))>>

FlagCols == <<"ref_low", "ref_high", "ref_units", "flag">>

apply_reference_ranges(df, mapping) ==
    Frame(df.cols \o FlagCols,
          [i \in DOMAIN df.rows |->
              df.rows[i] \o
              (IF mapping["test_name"] = NoneCol \/ mapping["value"] = NoneCol
               THEN Untouched
               ELSE FlagRow(df, mapping, df.rows[i]))])

----------------------------------------------------------------------------
\* summarize

NoneMean == [num |-> NoneNum, den |-> 0]

\* The mean as a fraction in lowest terms.
Mean(vals) ==
    LET total == SeqSum(vals)
        g == GCD(total, Len(vals))
    IN  [num |-> total \div g, den |-> Len(vals) \div g]

\* The numbers of a sequence of cells (pd.to_numeric, missing cells skipped).
Numbers(cells) ==
    LET kept == SelectSeq(cells, LAMBDA c : ~IsNA(ToNumeric(c)))
    IN  [i \in DOMAIN kept |-> ToNumeric(kept[i]).n]

Column(df, rows, c) == [i \in DOMAIN rows |-> Cell(df, rows[i], c)]

SummaryRow(type, value, count, vals) ==
    [group_type |-> type,
     group_value |-> value,
     count |-> count,
     mean |-> IF vals = <<>> THEN NoneMean ELSE Mean(vals),
     min |-> IF vals = <<>> THEN NoneNum ELSE SetMin(Range(vals)),
     max |-> IF vals = <<>> THEN NoneNum ELSE SetMax(Range(vals))]

Overall(df, mapping) ==
    LET val_col == mapping["value"]
    IN  SummaryRow("overall", Str("ALL"), Len(df.rows),
                   IF val_col # NoneCol /\ HasCol(df, val_col)
                   THEN Numbers(Column(df, df.rows, val_col))
                   ELSE <<>>)

\* for g in group_by: canon_to_actual.get(g, g if g in df.columns else None)
\* The literal column name tried before the canonical role.
ResolveKey_LiteralFirst(df, mapping, g) ==
    IF HasCol(df, g) THEN g
    ELSE IF g \in DOMAIN mapping /\ mapping[g] # NoneCol THEN mapping[g]
    ELSE NoneCol

ResolveKey(df, mapping, g) ==
    IF g \in DOMAIN mapping /\ mapping[g] # NoneCol THEN mapping[g]
    ELSE IF HasCol(df, g) THEN g
    ELSE NoneCol

RECURSIVE ActualGroupCols(_, _, _)
ActualGroupCols(df, mapping, group_by) ==
    IF group_by = <<>> THEN <<>>
    ELSE LET front == ActualGroupCols(df, mapping, SubSeq(group_by, 1, Len(group_by) - 1))
             actual == ResolveKey(df, mapping, group_by[Len(group_by)])
         IN  IF actual # NoneCol /\ actual \notin Range(front)
             THEN Append(front, actual)
             ELSE front

\* df.groupby(col): the groups are the values of col that are not missing
\* (dropna=True is the default); the rows whose col is missing are in no group.
GroupKeys(df, col) == {Cell(df, r, col) : r \in Range(df.rows)} \ {NA}

GroupRows(df, col, key) == SelectSeq(df.rows, LAMBDA r : Cell(df, r, col) = key)

\* r[col] if pd.notna(r[col]) else "(missing)"
GroupValue(key) == IF IsNA(key) THEN Str("(missing)") ELSE key

GroupedRow(df, mapping, col, key) ==
    LET val_col == mapping["value"]
        members == GroupRows(df, col, key)
    IN  IF val_col # NoneCol /\ HasCol(df, val_col)
        THEN LET vals == Numbers(Column(df, members, val_col))
             IN  SummaryRow(col, GroupValue(key), Len(vals), vals)
        ELSE SummaryRow(col, GroupValue(key), Len(members), <<>>)

\* The summary table: the overall row, then for each group column, in order,
\* its rows (one block for each column; the rows of a block are a set, their
\* order in the table being that of the sorted group values).
summarize(df, mapping, group_by) ==
    LET cols == ActualGroupCols(df, mapping, group_by)
    IN  [overall |-> Overall(df, mapping),
         grouped |-> [x \in DOMAIN cols |->
                        [col |-> cols[x],
                         rows |-> {GroupedRow(df, mapping, cols[x], key) :
                                      key \in GroupKeys(df, cols[x])}]]]

----------------------------------------------------------------------------
\* write_outputs and plot_histograms_per_test

\* DataFrame.to_csv: a missing cell and an empty string are both written as an
\* empty field; a number is written in its decimal spelling.
ToCsvCell(c) ==
    CASE c.k = "na" -> NA
      [] c.k = "str" -> (IF c.s = "" THEN NA ELSE c)
      [] c.k = "num" -> NumTxt(c.n, "dec")
      [] OTHER -> c

ToCsv(df) ==
    [header |-> df.cols,
     rows |-> [i \in DOMAIN df.rows |->
                  [j \in DOMAIN df.cols |-> ToCsvCell(df.rows[i][j])]]]

\* df_flagged[df_flagged["flag"].isin(["LOW", "HIGH"])]
FlagsOnly(flagged) ==
    Frame(flagged.cols,
          SelectSeq(flagged.rows,
                    LAMBDA r : Cell(flagged, r, "flag") \in {Str("LOW"), Str("HIGH")}))

OutputNames == <<"clean", "flags", "summary">>

OutputOf(name, flagged, table) ==
    CASE name = "clean" -> ToCsv(flagged)
      [] name = "flags" -> ToCsv(FlagsOnly(flagged))
      [] name = "summary" -> table

\* The histograms written: one for each test (missing test names are not
\* grouped) that has a numeric value; None when a role is missing.
plot_histograms_per_test(df, mapping) ==
    LET test_col == mapping["test_name"]
        val_col == mapping["value"]
    IN  IF test_col = NoneCol \/ val_col = NoneCol
           \/ ~HasCol(df, test_col) \/ ~HasCol(df, val_col)
        THEN {}
        ELSE {t \in GroupKeys(df, test_col) :
                Numbers(Column(df, GroupRows(df, test_col, t), val_col)) # <<>>}

----------------------------------------------------------------------------
\* Input files

\* A header: a sequence of <<column name, field of the record it is filled from>>.
Headers ==
    {<< <<"PatientID", "pid">>, <<"Sex", "sex">>, <<"test", "test">>, <<"value", "value">> >>,
     << <<"MRN", "pid">>, <<"Gender", "sex">>, <<"Analyte", "test">>,
        <<"Result", "value">>, <<"Date", "date">> >>,
     << <<"test_name", "test">>, <<"test", "alt">>, <<"Value", "value">>,
        <<"reported_date", "date">> >>,
     << <<"site", "alt">>, <<"Value", "value">> >>,
     << <<"Test", "test">>, <<"Sex", "sex">>, <<"reported_date", "date">> >>,
     << <<"Test", "alt">>, <<"test", "test">>, <<"value", "value">>, <<"sex", "sex">> >>,
     << <<"site", "alt">>, <<"patient_id", "pid">> >>}

Rec(pid, sex, test, value, date, alt) ==
    [pid |-> pid, sex |-> sex, test |-> test, value |-> value, date |-> date, alt |-> alt]

WideSex ==
    {Str("M"), Str("male"), Str("MALE"), Str("Man"), Str("F"), Str(" f "),
     Str("Female"), Str("WOMAN"), Str("x"), NA}

WideTest == {Str("GLU"), Str("hgb"), Str(" WBC "), Str("ZZZ"), NA}

WideNumbers ==
    {699, 700, 850, 990, 991, 119, 120, 130, 135, 155, 156, 160, 161, 175, 176,
     39, 40, 110, 111}

WideValue ==
    {NumTxt(n, IF n % 10 = 0 THEN "int" ELSE "dec") : n \in WideNumbers}
        \cup {Str("abc"), NA}

\* One-row files take their row from WideRecs.
WideRecs ==
    {Rec(Str("P1"), s, t, v, Str("notadate"), Str("A")) :
        s \in WideSex, t \in WideTest, v \in WideValue}

\* Files of up to MaxRows rows take their rows from SmallRecs.
SmallRecs ==
    {Rec(Str("P1"), Str("Male"), Str("GLU"), NumTxt(700, "int"), DateTxt(1, "us"), Str("A")),
     Rec(Str("P1"), Str("Male"), Str("GLU"), NumTxt(700, "dec"), DateTxt(1, "us"), Str("A")),
     Rec(Str("P1"), Str("Male"), Str("GLU"), Str("abc"), DateTxt(1, "us"), Str("A")),
     Rec(Str("P1"), Str("Male"), Str("GLU"), Str("xyz"), DateTxt(1, "us"), Str("A")),
     Rec(Str("P1"), Str(" f "), Str("hgb"), NumTxt(130, "dec"), Str("notadate"), NA),
     Rec(Str("P1"), NA, NA, NumTxt(991, "dec"), NA, Str("B")),
     Rec(Str("P1"), NA, Str("GLU"), NA, DateTxt(2, "us"), Str(" ")),
     Rec(NA, NA, NA, NA, NA, NA)}

Project(h, rec) == [j \in DOMAIN h |-> rec[h[j][2]]]

HeaderOf(h) == [j \in DOMAIN h |-> h[j][1]]

WideFilesOf(h) ==
    {[header |-> HeaderOf(h), rows |-> <<Project(h, rec)>>] : rec \in WideRecs}

SmallFilesOf(h) ==
    UNION {{[header |-> HeaderOf(h), rows |-> [i \in 1..n |-> Project(h, q[i])]] :
               q \in [1..n -> SmallRecs]} : n \in 1..MaxRows}

\* --by: its default, and the group-by lists tried.
DefaultBy == <<"test_name", "sex">>

ByOptions ==
    {DefaultBy,
     <<"test_name", "test">>,
     <<"sex", "nosuch", "Gender", "site">>,
     <<"site", "value", "date">>,
     <<>>}

----------------------------------------------------------------------------
\* main

VARIABLES
    pc,          \* the stage main is about to run, or "exit"
    file,        \* the input CSV: [header, rows]
    args,        \* [by, no_charts]; no_charts is read, and drawn, at the chart step
    df,          \* the frame: load_csv's, then normalize_schema's
    mapping,     \* canonical role -> column name, or NoneCol
    date_cols,   \* the date-like columns normalize_schema coerced
    df_flagged,  \* apply_reference_ranges's frame
    summary,     \* summarize's table
    outputs,     \* the output files written: name -> content
    charts,      \* the histograms written
    exit_code,   \* main's return value, NoneNum while it runs
    df_loaded,   \* history: the frame load_csv returned
    failed,      \* history: the stage that raised, or "none"
    run,         \* 1, or 2 in a run on the cleaned output of run 1
    prev         \* history: df_flagged and summary of run 1

vars ==
    <<pc, file, args, df, mapping, date_cols, df_flagged, summary, outputs, charts,
      exit_code, df_loaded, failed, run, prev>>

NoMapping == [r \in Range(Roles) |-> NoneCol]

NoSummary == [overall |-> SummaryRow("", NA, 0, <<>>), grouped |-> <<>>]

NoOutputs == [name \in {} |-> EmptyFrame]

NoPrev == [flagged |-> EmptyFrame, summary |-> NoSummary]

Fresh ==
    /\ pc = "load"
    /\ df = EmptyFrame
    /\ mapping = NoMapping
    /\ date_cols = <<>>
    /\ df_flagged = EmptyFrame
    /\ summary = NoSummary
    /\ outputs = NoOutputs
    /\ charts = {}
    /\ exit_code = NoneNum
    /\ df_loaded = EmptyFrame
    /\ failed = "none"

\* A one-row file is analyzed with the default --by, a file of SmallRecs with
\* each of ByOptions.
Init ==
    /\ \E h \in Headers :
          \/ (file \in WideFilesOf(h) /\ args = [by |-> DefaultBy])
          \/ (file \in SmallFilesOf(h) /\ args \in [by : ByOptions])
    /\ run = 1
    /\ prev = NoPrev
    /\ Fresh

\* load_csv(inp): it raises when the path does not exist, when its suffix is
\* not .csv, and when pd.read_csv cannot read the file; main then returns 2.
Load ==
    /\ pc = "load"
    /\ \E outcome \in {"ok", "not_found", "not_csv", "unreadable"} :
          IF outcome = "ok"
          THEN /\ df' = load_csv(file)
               /\ df_loaded' = load_csv(file)
               /\ pc' = "normalize"
               /\ UNCHANGED <<exit_code, failed>>
          ELSE /\ exit_code' = 2
               /\ failed' = "load"
               /\ pc' = "exit"
               /\ UNCHANGED <<df, df_loaded>>
    /\ UNCHANGED <<file, args, mapping, date_cols, df_flagged, summary, outputs,
                   charts, run, prev>>

Normalize ==
    /\ pc = "normalize"
    /\ mapping' = Mapping(df)
    /\ date_cols' = DateCols(df, Mapping(df))
    /\ df' = NormalizedFrame(df)
    /\ pc' = "flag"
    /\ UNCHANGED <<file, args, df_flagged, summary, outputs, charts, exit_code,
                   df_loaded, failed, run, prev>>

Flag ==
    /\ pc = "flag"
    /\ df_flagged' = apply_reference_ranges(df, mapping)
    /\ pc' = "summarize"
    /\ UNCHANGED <<file, args, df, mapping, date_cols, summary, outputs, charts,
                   exit_code, df_loaded, failed, run, prev>>

Summarize ==
    /\ pc = "summarize"
    /\ summary' = summarize(df_flagged, mapping, args.by)
    /\ pc' = "write"
    /\ UNCHANGED <<file, args, df, mapping, date_cols, df_flagged, outputs, charts,
                   exit_code, df_loaded, failed, run, prev>>

\* A failed write that does not end the run.
Write_FailureIgnored ==
    /\ pc = "write"
    /\ \E n \in 0..Len(OutputNames) :
          /\ outputs' = [name \in {OutputNames[i] : i \in 1..n} |->
                            OutputOf(name, df_flagged, summary)]
          /\ failed' = IF n = Len(OutputNames) THEN failed ELSE "write"
    /\ pc' = "chart"
    /\ UNCHANGED <<file, args, df, mapping, date_cols, df_flagged, summary, charts,
                   exit_code, df_loaded, run, prev>>

\* write_outputs writes the three files in order; a write that raises leaves
\* the files before it written, and main returns 3.
Write ==
    /\ pc = "write"
    /\ \E n \in 0..Len(OutputNames) :
          /\ outputs' = [name \in {OutputNames[i] : i \in 1..n} |->
                            OutputOf(name, df_flagged, summary)]
          /\ IF n = Len(OutputNames)
             THEN /\ pc' = "chart"
                  /\ UNCHANGED <<exit_code, failed>>
             ELSE /\ exit_code' = 3
                  /\ failed' = "write"
                  /\ pc' = "exit"
    /\ UNCHANGED <<file, args, df, mapping, date_cols, df_flagged, summary, charts,
                   df_loaded, run, prev>>

\* The chart step, then "Done": main returns 0 whether or not the step raised.
Chart ==
    /\ pc = "chart"
    /\ \E no_charts \in BOOLEAN :
          IF no_charts
          THEN UNCHANGED <<charts, failed>>
          ELSE \E raised \in BOOLEAN :
                  IF raised
                  THEN /\ failed' = "chart"
                       /\ UNCHANGED charts
                  ELSE /\ charts' = plot_histograms_per_test(df_flagged, mapping)
                       /\ UNCHANGED failed
    /\ exit_code' = 0
    /\ pc' = "exit"
    /\ UNCHANGED <<file, args, df, mapping, date_cols, df_flagged, summary, outputs,
                   df_loaded, run, prev>>

Next == Load \/ Normalize \/ Flag \/ Summarize \/ Write \/ Chart

Spec == Init /\ [][Next]_vars

----------------------------------------------------------------------------
\* A second run, on the cleaned output of the first

\* The cleaned CSV of a run with the ref_low, ref_high, ref_units and flag
\* columns stripped.
StripFlagCols(csv) ==
    LET keep == SelectSeq(Indices(Len(csv.header)),
                          LAMBDA j : csv.header[j] \notin Range(FlagCols))
    IN  [header |-> [x \in DOMAIN keep |-> csv.header[keep[x]]],
         rows |-> [i \in DOMAIN csv.rows |->
                      [x \in DOMAIN keep |-> csv.rows[i][keep[x]]]]]

Rerun ==
    /\ pc = "exit"
    /\ exit_code = 0
    /\ run = 1
    /\ file' = StripFlagCols(outputs["clean"])
    /\ prev' = [flagged |-> df_flagged, summary |-> summary]
    /\ run' = 2
    /\ pc' = "load"
    /\ df' = EmptyFrame
    /\ mapping' = NoMapping
    /\ date_cols' = <<>>
    /\ df_flagged' = EmptyFrame
    /\ summary' = NoSummary
    /\ outputs' = NoOutputs
    /\ charts' = {}
    /\ exit_code' = NoneNum
    /\ df_loaded' = EmptyFrame
    /\ failed' = "none"
    /\ UNCHANGED args

InitSmall ==
    /\ \E h \in Headers : file \in SmallFilesOf(h)
    /\ args \in [by : ByOptions]
    /\ run = 1
    /\ prev = NoPrev
    /\ Fresh

NextRerun == Next \/ Rerun

SpecRerun == InitSmall /\ [][NextRerun]_vars

----------------------------------------------------------------------------
\* Properties

\* The stages that have run.
AfterLoad == pc \in {"normalize", "flag", "summarize", "write", "chart"}
                \/ (pc = "exit" /\ failed # "load")

AfterNormalize == pc \in {"flag", "summarize", "write", "chart"}
                     \/ (pc = "exit" /\ failed # "load")

AfterFlag == pc \in {"summarize", "write", "chart"} \/ (pc = "exit" /\ failed # "load")

AfterSummarize == pc \in {"write", "chart"} \/ (pc = "exit" /\ failed # "load")

RolesResolved == mapping["test_name"] # NoneCol /\ mapping["value"] # NoneCol

FCell(r, c) == Cell(df_flagged, r, c)

FlagIs(r, f) == FCell(r, "flag") = Str(f)

RangeEmpty(r) ==
    IsNA(FCell(r, "ref_low")) /\ IsNA(FCell(r, "ref_high")) /\ IsNA(FCell(r, "ref_units"))

\* The stages that have run have left their results: no stage between loading
\* and writing ends the run.
StagesCompleted ==
    /\ AfterNormalize => (df.cols = df_loaded.cols /\ Len(df.rows) = Len(df_loaded.rows))
    /\ AfterFlag =>
          (df_flagged.cols = df.cols \o FlagCols /\ Len(df_flagged.rows) = Len(df.rows))
    /\ AfterSummarize =>
          (summary.overall.group_type = "overall"
              /\ summary.overall.count = Len(df_loaded.rows))
    /\ (AfterLoad /\ pc = "exit") => failed \in {"none", "write", "chart"}

\* C1: a record with a resolved range (low, high) and a numeric value v is
\* flagged LOW iff v < low, HIGH iff v > high and NORMAL iff low <= v <= high;
\* v = low and v = high are NORMAL.
C1_FlagBoundaryLaw ==
    (AfterFlag /\ RolesResolved) =>
        \A r \in Range(df_flagged.rows) :
            LET v == FCell(r, mapping["value"])
                low == FCell(r, "ref_low")
                high == FCell(r, "ref_high")
            IN  (v.k = "num" /\ low.k = "num" /\ high.k = "num") =>
                    /\ FlagIs(r, "LOW") <=> v.n < low.n
                    /\ FlagIs(r, "HIGH") <=> v.n > high.n
                    /\ FlagIs(r, "NORMAL") <=> (low.n <= v.n /\ v.n <= high.n)
                    /\ (low.n = 700 /\ high.n = 990) =>
                          /\ v.n = 699 => FlagIs(r, "LOW")
                          /\ v.n \in {700, 850, 990} => FlagIs(r, "NORMAL")
                          /\ v.n = 991 => FlagIs(r, "HIGH")

\* A value on the lower bound of its range, flagged NORMAL.
C1_Witness ==
    /\ AfterFlag
    /\ RolesResolved
    /\ \E r \in Range(df_flagged.rows) :
          /\ FCell(r, mapping["value"]) = Num(700)
          /\ FCell(r, "ref_low") = Num(700)
          /\ FlagIs(r, "NORMAL")

\* The raw sex values that the claim sends to M and to F, as the frame holds
\* them, and the range the claim gives a test name and a raw sex.
ClaimedSex(raw) ==
    IF raw \in {Str("M"), Str("male"), Str("MALE"), Str("Man"), Str("Male")} THEN "M"
    ELSE IF raw \in {Str("F"), Str("f"), Str("Female"), Str("WOMAN")} THEN "F"
    ELSE "unknown"

ClaimedRange(test, sex) ==
    CASE test \in {Str("GLU")} -> <<Num(700), Num(990), Str("mg/dL")>>
      [] test \in {Str("WBC")} -> <<Num(40), Num(110), Str("10^9/L")>>
      [] test \in {Str("HGB"), Str("hgb")} ->
            (CASE sex = "M" -> <<Num(135), Num(175), Str("g/dL")>>
               [] sex = "F" -> <<Num(120), Num(155), Str("g/dL")>>
               [] OTHER -> <<Num(120), Num(160), Str("g/dL")>>)
      [] OTHER -> <<NA, NA, NA>>

\* A table with a sex-keyed entry that has no default.
RangesWithoutDefault ==
    [HGB |-> [tuple |-> FALSE,
              t |-> Triple(0, 0, ""),
              d |-> [M |-> Triple(135, 175, "g/dL")]]]

\* C2: the raw sex is normalized case-insensitively ({m, male, man} -> M,
\* {f, female, woman} -> F, anything else or missing -> unknown) and the range
\* applied to a record is the unisex triple, the triple of the normalized sex,
\* the default triple, or none, by the entry of its test; a sex-keyed entry
\* with neither the sex nor a default gives no range.
C2_SexAwareRange ==
    /\ (AfterFlag /\ RolesResolved) =>
          \A r \in Range(df_flagged.rows) :
              LET test == FCell(r, mapping["test_name"])
                  sex == IF mapping["sex"] = NoneCol THEN "unknown"
                         ELSE ClaimedSex(FCell(r, mapping["sex"]))
              IN  ~IsNA(FCell(r, mapping["value"])) =>
                     <<FCell(r, "ref_low"), FCell(r, "ref_high"), FCell(r, "ref_units")>>
                        = ClaimedRange(test, sex)
    /\ LookupRange(RangesWithoutDefault, "HGB", "M") = Found(Triple(135, 175, "g/dL"))
    /\ LookupRange(RangesWithoutDefault, "HGB", "F") = NoRange
    /\ LookupRange(RangesWithoutDefault, "HGB", NoneSex) = NoRange
    /\ LookupRange(RangesWithoutDefault, "GLU", "M") = NoRange

\* HGB records of an upper-case MALE, of a Female and of an unrecognized sex.
C2_Witness ==
    /\ AfterFlag
    /\ RolesResolved
    /\ mapping["sex"] # NoneCol
    /\ \E r \in Range(df_flagged.rows) :
          /\ FCell(r, mapping["test_name"]) = Str("hgb")
          /\ FCell(r, mapping["sex"]) = Str("MALE")
          /\ FCell(r, "ref_low") = Num(135)
          /\ FCell(r, "ref_high") = Num(175)

\* The test name of a record is a key of the range table.
TestInTable(r) ==
    LET test == FCell(r, mapping["test_name"])
    IN  test.k = "str" /\ Upper(Strip(test.s)) \in DOMAIN DEMO_RANGES

\* C3: a record whose test_name or value role is unresolved, whose test is not
\* in the table, or whose value is missing or not numeric has flag UNKNOWN and
\* empty ref_low, ref_high, ref_units; no record has flag UNKNOWN together with
\* a populated range field.
C3_UnknownHasNoRange ==
    AfterFlag =>
        \A i \in DOMAIN df_flagged.rows :
            LET r == df_flagged.rows[i]
                loaded == df_loaded.rows[i]
            IN  /\ (\/ ~RolesResolved
                    \/ ~TestInTable(r)
                    \/ Cell(df_loaded, loaded, mapping["value"]).k \notin {"num", "numtxt"})
                      => (FlagIs(r, "UNKNOWN") /\ RangeEmpty(r))
                /\ FlagIs(r, "UNKNOWN") => RangeEmpty(r)

\* A numeric value of a test that is not in the table.
C3_Witness ==
    /\ AfterFlag
    /\ RolesResolved
    /\ \E r \in Range(df_flagged.rows) :
          /\ FCell(r, mapping["test_name"]) = Str("ZZZ")
          /\ FCell(r, mapping["value"]).k = "num"
          /\ FlagIs(r, "UNKNOWN")
          /\ RangeEmpty(r)

RECURSIVE SumOfCounts(_)
SumOfCounts(rows) ==
    IF rows = {} THEN 0
    ELSE LET row == CHOOSE x \in rows : TRUE
         IN  row.count + SumOfCounts(rows \ {row})

Missing == Str("(missing)")

\* C4: a group-by column in which some records have a missing value gets
\* exactly one grouped row for the missing bucket, with group_value
\* "(missing)", besides one row for each distinct value that is not missing.
C4_MissingBucket ==
    AfterSummarize =>
        \A x \in DOMAIN summary.grouped :
            LET block == summary.grouped[x]
                values == {FCell(r, block.col) : r \in Range(df_flagged.rows)}
            IN  NA \in values =>
                    /\ Cardinality({row \in block.rows : row.group_value = Missing}) = 1
                    /\ Cardinality(block.rows) = Cardinality(values \ {NA}) + 1

\* C5: each role resolves to the column that case-insensitively equals the
\* first candidate, in priority order, that the header has, and to none when
\* the header has no candidate; PatientID, patient_id and MRN each resolve to
\* patient_id; with a role unresolved the later stages still run.
C5_RoleResolution ==
    /\ AfterNormalize =>
          \A role \in Range(Roles) :
              LET cands == CANDIDATES[role]
                  present == {i \in DOMAIN cands :
                                 \E c \in Range(df_loaded.cols) : Lower(c) = cands[i]}
              IN  IF present = {} THEN mapping[role] = NoneCol
                  ELSE /\ mapping[role] \in Range(df_loaded.cols)
                       /\ Lower(mapping[role]) = cands[SetMin(present)]
    /\ AfterNormalize =>
          \A c \in {"PatientID", "patient_id", "MRN"} :
              c \in Range(df_loaded.cols) => mapping["patient_id"] = c
    /\ (\E role \in Range(Roles) : mapping[role] = NoneCol) => StagesCompleted

\* A header with no test_name candidate: the role is none, Value resolves to
\* value, and the run ends with exit code 0.
C5_Witness ==
    /\ pc = "exit"
    /\ exit_code = 0
    /\ mapping["test_name"] = NoneCol
    /\ mapping["value"] = "Value"
    /\ Len(df_flagged.rows) > 0

\* C6: main returns 2 iff loading fails, and then no later stage has run and
\* no output is written; 3 iff loading succeeds and writing fails, and then no
\* chart is generated; 0 otherwise, also when the chart step fails.
C6_ExitCode ==
    /\ pc # "exit" => exit_code = NoneNum
    /\ pc = "exit" =>
          /\ exit_code \in {0, 2, 3}
          /\ exit_code = 2 <=> failed = "load"
          /\ exit_code = 3 <=> failed = "write"
          /\ exit_code = 0 <=> failed \in {"none", "chart"}
          /\ exit_code = 2 =>
                /\ df = EmptyFrame
                /\ mapping = NoMapping
                /\ df_flagged = EmptyFrame
                /\ summary = NoSummary
                /\ outputs = NoOutputs
                /\ charts = {}
          /\ exit_code = 3 => (charts = {} /\ DOMAIN outputs # Range(OutputNames))
          /\ exit_code = 0 => DOMAIN outputs = Range(OutputNames)

\* A run whose chart step raised after the three files were written.
C6_Witness ==
    /\ pc = "exit"
    /\ failed = "chart"
    /\ exit_code = 0
    /\ DOMAIN outputs = Range(OutputNames)

\* C7: a cell of the value column that does not parse as a number becomes
\* missing and its record is flagged UNKNOWN; a cell of a date-like column that
\* does not parse as a date becomes missing; the run goes on through flagging,
\* summarizing and writing.
C7_BadCellsNotFatal ==
    /\ AfterNormalize =>
          \A i \in DOMAIN df_loaded.rows :
              /\ \A c \in Range(df_loaded.cols) :
                    LET before == Cell(df_loaded, df_loaded.rows[i], c)
                        after == Cell(df, df.rows[i], c)
                    IN  /\ (c = mapping["value"] /\ before.k \notin {"num", "numtxt"})
                            => IsNA(after)
                        /\ (Lower(c) \in DATE_PATTERNS /\ before.k # "datetxt")
                            => IsNA(after)
              /\ (AfterFlag /\ mapping["value"] # NoneCol
                    /\ Cell(df_loaded, df_loaded.rows[i], mapping["value"]).k
                          \notin {"num", "numtxt"})
                    => FlagIs(df_flagged.rows[i], "UNKNOWN")
    /\ StagesCompleted

\* A record with a value and a date that do not parse, in a finished run.
C7_Witness ==
    /\ pc = "exit"
    /\ exit_code = 0
    /\ mapping["value"] # NoneCol
    /\ mapping["date"] # NoneCol
    /\ \E i \in DOMAIN df_loaded.rows :
          /\ Cell(df_loaded, df_loaded.rows[i], mapping["value"]) = Str("abc")
          /\ Cell(df_loaded, df_loaded.rows[i], mapping["date"]) = Str("notadate")
          /\ IsNA(Cell(df, df.rows[i], mapping["value"]))
          /\ IsNA(Cell(df, df.rows[i], mapping["date"]))
          /\ FlagIs(df_flagged.rows[i], "UNKNOWN")

\* C8: a run on the cleaned output of a run, with the flag columns stripped,
\* gives the flagged dataset and the summary table of that run.
C8_Idempotent ==
    (run = 2 /\ AfterSummarize) => (df_flagged = prev.flagged /\ summary = prev.summary)

\* The column the claim gives a group-by key.
ClaimedKeyColumn(g) ==
    IF g \in Range(Roles) /\ mapping[g] # NoneCol THEN mapping[g]
    ELSE IF g \in Range(df_flagged.cols) THEN g
    ELSE NoneCol

FirstKeyOf(col) ==
    SetMin({i \in DOMAIN args.by : ClaimedKeyColumn(args.by[i]) = col})

\* C9: a group-by key is taken as a canonical role name first and as a literal
\* column name otherwise; keys of the same column are grouped once, keys of no
\* column are skipped, and the grouped rows come in the order of the keys.
C9_GroupKeys ==
    AfterSummarize =>
        LET gc == [x \in DOMAIN summary.grouped |-> summary.grouped[x].col]
        IN  /\ Range(gc) = {ClaimedKeyColumn(g) : g \in Range(args.by)} \ {NoneCol}
            /\ \A x, y \in DOMAIN gc : x # y => gc[x] # gc[y]
            /\ \A x, y \in DOMAIN gc : x < y => FirstKeyOf(gc[x]) < FirstKeyOf(gc[y])
            /\ \A x \in DOMAIN gc :
                  \A row \in summary.grouped[x].rows : row.group_type = gc[x]
            /\ ({"test", "test_name"} \subseteq Range(df_flagged.cols)
                  /\ "test_name" \in Range(args.by))
                  => ("test" \in Range(gc) /\ "test_name" \notin Range(gc))

\* Columns test and test_name both present, keys test_name and test: one
\* block, of the column test.
C9_Witness ==
    /\ AfterSummarize
    /\ {"test", "test_name"} \subseteq Range(df_flagged.cols)
    /\ args.by = <<"test_name", "test">>
    /\ Len(summary.grouped) = 1
    /\ summary.grouped[1].col = "test"
    /\ summary.grouped[1].rows # {}

\* C10: the overall count is the number of records; the count of a grouped row
\* is the number of records of its group, their value missing or not; the
\* counts of the grouped rows of one key sum to the overall count.
C10_CountConsistency ==
    AfterSummarize =>
        /\ summary.overall.count = Len(df_flagged.rows)
        /\ \A x \in DOMAIN summary.grouped :
              LET block == summary.grouped[x]
              IN  /\ \A row \in block.rows :
                        row.count =
                            Cardinality({i \in DOMAIN df_flagged.rows :
                                GroupValue(FCell(df_flagged.rows[i], block.col))
                                    = row.group_value})
                  /\ SumOfCounts(block.rows) = summary.overall.count

====
